---- MODULE Spec2Model ----
(***************************************************************************)
(* A model of github.com/enverbisevac/render: the response writers (Blob,  *)
(* PlainText, HTML, JSON, XML and the responder that dispatches on the     *)
(* Accept header), the error mapper (Error, ErrorMap, HTTPError) and the   *)
(* pagination component (NewPagination, Render, redirect, headers), the   *)
(* streaming of channels (Stream, channelIntoSlice) and the request side   *)
(* (GetContentType, GetAcceptedContentType, the decoders).                 *)
(*                                                                         *)
(* Strings the code parses or formats (numbers in a query string) are      *)
(* sequences of one-character strings, so that strconv.Atoi and            *)
(* strconv.Itoa are computed and not assumed.  A response is the           *)
(* http.ResponseWriter as net/http implements it: the header map, the      *)
(* status line (written once, by WriteHeader or by the first Write) with   *)
(* the headers frozen at that moment, and the body chunks in order.        *)
(***************************************************************************)
EXTENDS Integers, Sequences, FiniteSets, TLC

VARIABLES
    pc,        \* position of the modelled call: "start", "built", "done", "panic"
    op,        \* the exported function that was called ("" before the call)
    w,         \* the http.ResponseWriter
    params,    \* the caller's variadic params
    val,       \* the payload v handed to a writer or to Render
    accept,    \* the request's Accept header (token sequence)
    err,       \* the error handed to Error or returned by a decoder (chain of
               \* layers, outermost first; <<>> is nil)
    treated,   \* the error Error handed to TreatError (<<>> before that)
    reqURL,    \* the request's *url.URL: [path, query]
    p,         \* the Pagination value
    total,     \* totalItems handed to NewPagination
    opts,      \* the PaginationOption list handed to NewPagination
    inHeader,  \* the package variable PaginationInHeader
    calls,     \* the callees Pagination.Render invoked, in order
    ret,       \* what the last URL accessor or classifier call returned
    ch,        \* the channel handed over as v, with its producer
    ctxDone,   \* r.Context() is cancelled: ctx.Done() is closed
    recvd,     \* the items received from the channel so far, in order
    reqContentType, \* the request's Content-Type header (token sequence)
    reqBody,   \* the request's Body, an io.Reader: its bytes and how far it was read
    vTarget    \* the value behind the pointer v a decoder fills

vars == <<pc, op, w, params, val, accept, err, treated, reqURL, p, total, opts,
          inHeader, calls, ret, ch, ctxDone, recvd, reqContentType, reqBody, vTarget>>

---------------------------------------------------------------------------
(* Bounds of the model. *)

\* longest params list a caller passes to Blob / JSON / XML / PlainText / HTML
MaxParams == 3
\* most wrapping layers (fmt.Errorf %w, HTTPError) around the innermost error
MaxDepth == 2
\* longest params list a caller passes to Error
MaxErrParams == 2
\* most PaginationOption values a caller passes to NewPagination
MaxOpts == 1
\* most items the producer of a channel sends
MaxItems == 2

---------------------------------------------------------------------------
(* Small helpers. *)

RECURSIVE SeqsUpTo(_, _)
\* all sequences over S of length at most n
SeqsUpTo(S, n) ==
    IF n = 0 THEN {<<>>}
    ELSE LET shorter == SeqsUpTo(S, n - 1)
         IN  shorter \cup {Append(s, x) : s \in shorter, x \in S}

Nil == "nil"

---------------------------------------------------------------------------
(* http.ResponseWriter (net/http): Header(), WriteHeader, Write. *)

\* textproto.CanonicalMIMEHeaderKey on the header names the model uses
CanonicalHeaderKey(k) ==
    CASE k = "content-type" -> "Content-Type"
      [] k = "x-foo"        -> "X-Foo"
      [] k = "x-page"        -> "X-Page"
      [] k = "x-per-page"    -> "X-Per-Page"
      [] k = "x-next-page"   -> "X-Next-Page"
      [] k = "x-prev-page"   -> "X-Prev-Page"
      [] k = "x-total"       -> "X-Total"
      [] k = "x-total-pages" -> "X-Total-Pages"
      [] OTHER              -> k

NoHeader == [k \in {} |-> <<>>]

\* a response nothing was written to
FreshWriter ==
    [hdr    |-> NoHeader,   \* Header(): canonical key -> values
     status |-> 0,          \* status line sent (0: none yet)
     sent   |-> NoHeader,   \* the headers as they were when the status line went out
     body   |-> <<>>,       \* body chunks written, in order
     wh     |-> <<>>]       \* every explicit WriteHeader(code) call, in order

\* http.Header.Set
HeaderSet(h, k, v) ==
    LET ck == CanonicalHeaderKey(k)
    IN  [x \in (DOMAIN h) \cup {ck} |-> IF x = ck THEN <<v>> ELSE h[x]]

\* http.Header.Add
HeaderAdd(h, k, v) ==
    LET ck == CanonicalHeaderKey(k)
    IN  [x \in (DOMAIN h) \cup {ck} |->
            IF x = ck THEN (IF ck \in DOMAIN h THEN Append(h[ck], v) ELSE <<v>>)
            ELSE h[x]]

\* http.Header.Get: the first value, "" when absent
HeaderGet(h, k) ==
    LET ck == CanonicalHeaderKey(k)
    IN  IF ck \in DOMAIN h /\ Len(h[ck]) > 0 THEN h[ck][1] ELSE ""

\* http.Header.Values
HeaderValues(h, k) ==
    LET ck == CanonicalHeaderKey(k)
    IN  IF ck \in DOMAIN h THEN h[ck] ELSE <<>>

WSetHeader(rw, k, v) == [rw EXCEPT !.hdr = HeaderSet(rw.hdr, k, v)]
WAddHeader(rw, k, v) == [rw EXCEPT !.hdr = HeaderAdd(rw.hdr, k, v)]

\* the status line goes out once; a later WriteHeader is superfluous and ignored
SendStatus(rw, code) ==
    IF rw.status # 0 THEN rw
    ELSE [rw EXCEPT !.status = code, !.sent = rw.hdr]

\* ResponseWriter.WriteHeader
WriteHeader(rw, code) ==
    [SendStatus(rw, code) EXCEPT !.wh = Append(rw.wh, code)]

\* ResponseWriter.Write: the first Write sends an implicit 200 status line
Write(rw, chunk) ==
    [SendStatus(rw, 200) EXCEPT !.body = Append(rw.body, chunk)]

\* the text http.Error writes as the body
ErrorTextChunk == [enc |-> "http.Error", of |-> ""]

\* http.Error: plain-text error response
HTTPErrorReply(rw, code) ==
    Write(WriteHeader(
            WSetHeader(WSetHeader(rw, "Content-Type", "text/plain; charset=utf-8"),
                       "X-Content-Type-Options", "nosniff"),
            code), ErrorTextChunk)

---------------------------------------------------------------------------
(* Content-type classification (contenttype.go). A header value is a       *)
(* sequence of tokens: a MIME word, ";", "," or " " (one blank).           *)

ContentTypeUnknown     == "Unknown"
ContentTypePlainText   == "PlainText"
ContentTypeHTML        == "HTML"
ContentTypeJSON        == "JSON"
ContentTypeXML         == "XML"
ContentTypeForm        == "Form"
ContentTypeEventStream == "EventStream"

\* var DefaultContentType = ContentTypeJSON
DefaultContentType == ContentTypeJSON

ApplicationJSONExt == "application/json; charset=utf-8"

RECURSIVE UpTo(_, _)
\* strings.Split(s, sep)[0]: the tokens before the first sep
UpTo(s, sep) ==
    IF s = <<>> \/ Head(s) = sep THEN <<>>
    ELSE <<Head(s)>> \o UpTo(Tail(s), sep)

RECURSIVE TrimLeft(_)
TrimLeft(s) == IF s # <<>> /\ Head(s) = " " THEN TrimLeft(Tail(s)) ELSE s

RECURSIVE TrimRight(_)
TrimRight(s) ==
    IF s # <<>> /\ s[Len(s)] = " " THEN TrimRight(SubSeq(s, 1, Len(s) - 1)) ELSE s

\* strings.TrimSpace
TrimSpace(s) == TrimRight(TrimLeft(s))

\* a GetContentType that does not trim
GetContentTypeNoTrim(s) ==
    LET t == UpTo(s, ";")
    IN  IF Len(t) = 1 /\ t[1] = "application/json" THEN ContentTypeJSON
        ELSE IF Len(t) = 1 /\ t[1] = "text/xml" THEN ContentTypeXML
        ELSE ContentTypeUnknown

\* GetContentType: strip the parameters, trim, exact match against the table
GetContentType(s) ==
    LET t == TrimSpace(UpTo(s, ";"))
    IN  IF Len(t) # 1 THEN ContentTypeUnknown
        ELSE CASE t[1] = "text/plain" -> ContentTypePlainText
               [] t[1] \in {"text/html", "application/xhtml+xml"} -> ContentTypeHTML
               [] t[1] \in {"application/json", "text/javascript"} -> ContentTypeJSON
               [] t[1] \in {"text/xml", "application/xml"} -> ContentTypeXML
               [] t[1] = "application/x-www-form-urlencoded" -> ContentTypeForm
               [] t[1] = "text/event-stream" -> ContentTypeEventStream
               [] OTHER -> ContentTypeUnknown

\* a GetAcceptedContentType that does not substitute the default
GetAcceptedContentTypeNoDefault(hdr) == GetContentType(TrimSpace(UpTo(hdr, ",")))

\* GetAcceptedContentType: first comma-separated field of Accept, default on Unknown
GetAcceptedContentType(hdr) ==
    LET contentType == GetContentType(TrimSpace(UpTo(hdr, ",")))
    IN  IF contentType = ContentTypeUnknown THEN DefaultContentType ELSE contentType

---------------------------------------------------------------------------
(* The variadic params and Blob (render.go). *)

\* a param is an int, a string, a pointer to one of them, or a value of a type
\* Blob's type switch does not list
IntParam(n)    == [k |-> "int",     n |-> n, s |-> ""]
StrParam(s)    == [k |-> "string",  n |-> 0, s |-> s]
PtrIntParam(n) == [k |-> "*int",    n |-> n, s |-> ""]
OtherParam     == [k |-> "bool",    n |-> 0, s |-> ""]

\* if rv.Kind() == reflect.Ptr { param = rv.Elem().Interface() }
Deref(param) ==
    CASE param.k = "*int"    -> IntParam(param.n)
      [] param.k = "*string" -> StrParam(param.s)
      [] OTHER               -> param

\* a bug Blob could have: every non-zero integer overwrites the status
BlobIntLastWins(status, arg) == IF arg # 0 THEN arg ELSE status

\* case int: the first non-zero integer is the status, later ones are ignored
BlobInt(status, arg) == IF status = 0 /\ arg # 0 THEN arg ELSE status

\* case string: fill key, then value; a completed pair is set and the pair reset
BlobString(st, arg) ==
    LET key1   == IF st.key = "" THEN arg ELSE st.key
        value1 == IF st.key = "" THEN st.value ELSE arg
    IN  IF key1 # "" /\ value1 # ""
        THEN [st EXCEPT !.rw = WSetHeader(st.rw, key1, value1), !.key = "", !.value = ""]
        ELSE [st EXCEPT !.key = key1, !.value = value1]

\* one iteration of Blob's loop over params
BlobStep(st, param) ==
    LET arg == Deref(param)
    IN  CASE arg.k = "int"    -> [st EXCEPT !.status = BlobInt(st.status, arg.n)]
          [] arg.k = "string" -> BlobString(st, arg.s)
          [] OTHER            -> st

RECURSIVE BlobLoop(_, _)
BlobLoop(st, ps) ==
    IF ps = <<>> THEN st ELSE BlobLoop(BlobStep(st, Head(ps)), Tail(ps))

\* Blob: default Content-Type, the params, the status line, the bytes
Blob(rw, chunk, ps) ==
    LET st0 == [status |-> 0, key |-> "", value |-> "",
                rw |-> WSetHeader(rw, "Content-Type", "application/octet-stream")]
        st  == BlobLoop(st0, ps)
        status == IF st.status = 0 THEN 200 ELSE st.status
    IN  Write(WriteHeader(st.rw, status), chunk)

\* body chunks
Chunk(enc, v) == [enc |-> enc, of |-> v.id]
XMLHeaderChunk == [enc |-> "xml.Header", of |-> ""]

ContentTypePair(ct) == <<StrParam("Content-Type"), StrParam(ct)>>

\* PlainText
PlainText(rw, v, args) ==
    Blob(rw, Chunk("text", v), args \o ContentTypePair("text/plain; charset=utf-8"))

\* HTML
HTML(rw, v, args) ==
    Blob(rw, Chunk("html", v), args \o ContentTypePair("text/html; charset=utf-8"))

\* JSON: a value the encoder rejects is answered by http.Error 500
JSON(rw, v, args) ==
    IF ~v.json THEN HTTPErrorReply(rw, 500)
    ELSE Blob(rw, Chunk("json", v), args \o ContentTypePair(ApplicationJSONExt))

\* XML: the declaration is written to w first when the marshalled bytes lack it
XML(rw, v, args) ==
    IF ~v.xml THEN HTTPErrorReply(rw, 500)
    ELSE LET rw1 == IF ~v.xmlDecl THEN Write(rw, XMLHeaderChunk) ELSE rw
         IN  Blob(rw1, Chunk("xml", v), args \o ContentTypePair("application/xml; charset=utf-8"))

\* the switch of DefaultResponder on a value that is not a channel; Stream
\* panics on such a value
Dispatch(rw, ct, v, ps) ==
    CASE ct \in {ContentTypePlainText, ContentTypeUnknown} ->
            [rw |-> PlainText(rw, v, ps), panic |-> FALSE]
      [] ct = ContentTypeJSON -> [rw |-> JSON(rw, v, ps), panic |-> FALSE]
      [] ct = ContentTypeXML  -> [rw |-> XML(rw, v, ps), panic |-> FALSE]
      [] ct = ContentTypeEventStream -> [rw |-> rw, panic |-> TRUE]
      [] OTHER -> [rw |-> JSON(rw, v, ps), panic |-> FALSE]

\* DefaultResponder / Respond / Render on a value that is not a channel
Respond(rw, acc, v, ps) == Dispatch(rw, GetAcceptedContentType(acc), v, ps)

---------------------------------------------------------------------------
(* The writers called directly: Blob, PlainText, HTML, JSON, XML. *)

\* payloads: what the encoders make of v
Values ==
    { [id |-> "text",   kind |-> "string", json |-> TRUE,  xml |-> TRUE,  xmlDecl |-> FALSE],
      [id |-> "struct", kind |-> "struct", json |-> TRUE,  xml |-> TRUE,  xmlDecl |-> FALSE],
      [id |-> "xmldoc", kind |-> "struct", json |-> TRUE,  xml |-> TRUE,  xmlDecl |-> TRUE],
      [id |-> "func",   kind |-> "struct", json |-> FALSE, xml |-> FALSE, xmlDecl |-> FALSE] }

NoValue == [id |-> "", kind |-> "nil", json |-> TRUE, xml |-> TRUE, xmlDecl |-> FALSE]

\* what a caller passes as one param
ParamValues ==
    { IntParam(0), IntParam(201), IntParam(404), PtrIntParam(202),
      StrParam(""), StrParam("Content-Type"), StrParam("X-Foo"), StrParam("bar"),
      OtherParam }

\* no channel in play
NoChan == [pending |-> <<>>, buf |-> <<>>, closed |-> FALSE, sent |-> <<>>]
NoURL == [path |-> "", query |-> <<>>]
\* "": the empty string a URL accessor returns
EmptyString == [path |-> "", query |-> <<>>]
NoPagination == [url |-> Nil, page |-> 0, perPage |-> 0, last |-> 0, total |-> 0]
\* http.NoBody: a reader at its end from the start
NoBody == [data |-> <<>>, pos |-> 0, failAt |-> -1]
\* the zero value of the type a decoder's target has
Zero == "zero"

InitWriters ==
    /\ pc = "start"
    /\ op = ""
    /\ w = FreshWriter
    /\ params \in SeqsUpTo(ParamValues, MaxParams)
    /\ val \in Values
    /\ accept = <<>>
    /\ err = <<>>
    /\ treated = <<>>
    /\ reqURL = NoURL
    /\ p = NoPagination
    /\ total = 0
    /\ opts = <<>>
    /\ inHeader = TRUE
    /\ calls = <<>>
    /\ ret = EmptyString
    /\ ch = NoChan
    /\ ctxDone = FALSE
    /\ recvd = <<>>
    /\ reqContentType = <<>>
    /\ reqBody = NoBody
    /\ vTarget = Zero

WriterCall(name, rw) ==
    /\ pc = "start"
    /\ pc' = "done"
    /\ op' = name
    /\ w' = rw
    /\ UNCHANGED <<reqContentType, reqBody, vTarget, ch, ctxDone, recvd, params, val, accept, err, treated, reqURL, p, total, opts,
                   inHeader, calls, ret>>

BlobCall      == WriterCall("Blob", Blob(w, Chunk("raw", val), params))
PlainTextCall == WriterCall("PlainText", PlainText(w, val, params))
HTMLCall      == WriterCall("HTML", HTML(w, val, params))
JSONCall      == WriterCall("JSON", JSON(w, val, params))
XMLCall       == WriterCall("XML", XML(w, val, params))

NextWriters ==
    \/ BlobCall
    \/ PlainTextCall
    \/ HTMLCall
    \/ JSONCall
    \/ XMLCall

SpecWriters == InitWriters /\ [][NextWriters]_vars

---------------------------------------------------------------------------
(* Claims about Blob and JSON. *)

Min(S) == CHOOSE x \in S : \A y \in S : x <= y

\* the positions of params holding an integer other than zero
NonZeroInts(ps) == {i \in 1..Len(ps) : Deref(ps[i]).k = "int" /\ Deref(ps[i]).n # 0}

\* C4: Blob writes as status the first integer of params that is not zero,
\* whatever stands before, between or after the integers, and 200 when params
\* holds no integer other than zero; the status line is written once.
C4_BlobStatus ==
    (op = "Blob" /\ pc = "done") =>
        /\ w.status = IF NonZeroInts(params) = {} THEN 200
                      ELSE Deref(params[Min(NonZeroInts(params))]).n
        /\ w.wh = <<w.status>>

\* Blob ran on params holding two different non-zero integers that do not
\* stand first, and wrote the earlier one
C4_Witness ==
    /\ op = "Blob" /\ pc = "done"
    /\ \E i, j \in NonZeroInts(params) :
          /\ 1 < i /\ i < j
          /\ Deref(params[i]).n # Deref(params[j]).n
          /\ w.status = Deref(params[i]).n

RECURSIVE StringsOf(_)
\* the strings among params, in the order they appear
StringsOf(ps) ==
    IF ps = <<>> THEN <<>>
    ELSE (IF Deref(Head(ps)).k = "string" THEN <<Deref(Head(ps)).s>> ELSE <<>>)
         \o StringsOf(Tail(ps))

RECURSIVE SetPairs(_, _)
\* the header after setting the strings two at a time, name then value
SetPairs(h, strs) ==
    IF Len(strs) < 2 THEN h
    ELSE SetPairs(HeaderSet(h, strs[1], strs[2]), SubSeq(strs, 3, Len(strs)))

\* C5: Blob pairs the string params two at a time in the order they appear
\* (name, then value), sets every completed pair, and a trailing string
\* without partner sets nothing; integers among the strings change nothing.
C5_BlobPairsInOrder ==
    (op = "Blob" /\ pc = "done") =>
        w.sent = SetPairs(HeaderSet(NoHeader, "Content-Type", "application/octet-stream"),
                          StringsOf(params))

\* C6: JSON on an encodable value answers with Content-Type
\* "application/json; charset=utf-8" whatever params the caller passes.
C6_JSONContentType ==
    (op = "JSON" /\ pc = "done" /\ val.json) =>
        HeaderGet(w.sent, "Content-Type") = ApplicationJSONExt

---------------------------------------------------------------------------
(* The error mapper (error.go). An error is its chain, outermost layer     *)
(* first: wrappers that unwrap to the next layer, HTTPError values and     *)
(* pointers (HTTPError has no Unwrap method: the chain walk ends there,    *)
(* the next layer is its Err field), and the innermost error.              *)

ErrInvalidToken == "ErrInvalidToken"
ErrUnauthorized == "ErrUnauthorized"
ErrForbidden    == "ErrForbidden"
ErrNotFound     == "ErrNotFound"

\* var ErrorMap = map[error]int{...}
ErrorMap ==
    [key \in {ErrInvalidToken, ErrUnauthorized, ErrForbidden, ErrNotFound} |->
        CASE key = ErrInvalidToken -> 400
          [] key = ErrUnauthorized -> 401
          [] key = ErrForbidden    -> 403
          [] key = ErrNotFound     -> 404]

\* a wrapper with an Unwrap method; "is" are the sentinels the wrapper itself
\* matches: none for fmt.Errorf("...%w", inner), one for
\* errors.Join(sentinel, inner)
WrapLayer(is) == [k |-> "wrap", status |-> 0, is |-> is]
\* HTTPError{Err: inner, Status: status}, as a value and as a pointer
HTTPErrorValue(status)   == [k |-> "HTTPError",  status |-> status, is |-> {}]
HTTPErrorPointer(status) == [k |-> "*HTTPError", status |-> status, is |-> {}]
\* the innermost error: errors.New (is = {}), a sentinel, or a join of sentinels
LeafError(is) == [k |-> "leaf", status |-> 0, is |-> is]

RECURSIVE ErrorsIs(_, _)
\* errors.Is(e, key)
ErrorsIs(e, key) ==
    IF e = <<>> THEN FALSE
    ELSE CASE Head(e).k = "wrap" -> key \in Head(e).is \/ ErrorsIs(Tail(e), key)
           [] Head(e).k = "leaf" -> key \in Head(e).is
           [] OTHER              -> FALSE

RECURSIVE ErrorsAsFrom(_, _)
\* errors.As(e, &httpError) with httpError of type *HTTPError: the position of
\* the first layer of type *HTTPError the walk reaches, from position i on;
\* 0 when there is none. An HTTPError value is not assignable to *HTTPError.
ErrorsAsFrom(e, i) ==
    IF i > Len(e) THEN 0
    ELSE CASE e[i].k = "*HTTPError" -> i
           [] e[i].k = "wrap"       -> ErrorsAsFrom(e, i + 1)
           [] OTHER                 -> 0

ErrorsAs(e) == ErrorsAsFrom(e, 1)

\* the statuses the loop over ErrorMap can leave in status: the map is ranged
\* over in an unspecified order and every matching entry overwrites status
MappedStatuses(e) ==
    LET hit == {key \in DOMAIN ErrorMap : ErrorsIs(e, key)}
    IN  IF hit = {} THEN {500} ELSE {ErrorMap[key] : key \in hit}

\* DefaultErrorRespond's ErrorResponse{Message: err.Error()}
ErrorResponse ==
    [id |-> "ErrorResponse", kind |-> "struct", json |-> TRUE, xml |-> TRUE, xmlDecl |-> FALSE]

Layers == { WrapLayer({}), WrapLayer({ErrNotFound}), HTTPErrorValue(409), HTTPErrorPointer(409) }

Leaves ==
    { LeafError({}), LeafError({ErrInvalidToken}), LeafError({ErrUnauthorized}),
      LeafError({ErrForbidden}), LeafError({ErrNotFound}),
      LeafError({ErrForbidden, ErrNotFound}) }

\* the errors a handler passes to Error
Errors == {Append(ls, leaf) : ls \in SeqsUpTo(Layers, MaxDepth), leaf \in Leaves}

AcceptHeaders ==
    { <<>>,
      <<"*/*">>,
      <<"text/plain">>,
      <<"application/json">>,
      <<"application/xml", ";", "q=0.9", ",", "application/json">>,
      <<" ", "text/html", ",", "application/xml">>,
      <<"application/x-www-form-urlencoded">>,
      <<"text/event-stream">> }

ErrParamValues == { IntParam(0), IntParam(400), IntParam(504), StrParam("X-Foo") }

InitError ==
    /\ pc = "start"
    /\ op = ""
    /\ w = FreshWriter
    /\ params \in SeqsUpTo(ErrParamValues, MaxErrParams)
    /\ val = NoValue
    /\ accept \in AcceptHeaders
    /\ err \in Errors
    /\ treated = <<>>
    /\ reqURL = NoURL
    /\ p = NoPagination
    /\ total = 0
    /\ opts = <<>>
    /\ inHeader = TRUE
    /\ calls = <<>>
    /\ ret = EmptyString
    /\ ch = NoChan
    /\ ctxDone = FALSE
    /\ recvd = <<>>
    /\ reqContentType = <<>>
    /\ reqBody = NoBody
    /\ vTarget = Zero

\* Error(w, r, err, params...)
ErrorCall ==
    /\ pc = "start"
    /\ \E mapped \in MappedStatuses(err) :
          LET at     == ErrorsAs(err)
              status == IF at # 0 THEN err[at].status ELSE mapped
              inner  == IF at # 0 THEN SubSeq(err, at + 1, Len(err)) ELSE err
              out    == Respond(w, accept, ErrorResponse, Append(params, IntParam(status)))
          IN  /\ treated' = inner
              /\ val' = ErrorResponse
              /\ w' = out.rw
              /\ pc' = IF out.panic THEN "panic" ELSE "done"
    /\ op' = "Error"
    /\ UNCHANGED <<reqContentType, reqBody, vTarget, ch, ctxDone, recvd, params, accept, err, reqURL, p, total, opts, inHeader, calls, ret>>

NextError == ErrorCall

SpecError == InitError /\ [][NextError]_vars

---------------------------------------------------------------------------
(* Claims about Error. *)

\* the positions of the HTTPError layers of a chain, values and pointers
HTTPErrorsIn(e) == {i \in 1..Len(e) : e[i].k \in {"HTTPError", "*HTTPError"}}

\* the sentinels of ErrorMap e matches, through any depth of wrapping
Matched(e) == {key \in DOMAIN ErrorMap : ErrorsIs(e, key)}

\* C1: Error without a caller status, on an error whose chain holds no
\* HTTPError: the response status is the status registered for a sentinel the
\* error matches, and 500 when it matches none.
C1_MappedStatus ==
    (op = "Error" /\ pc = "done" /\ NonZeroInts(params) = {} /\ HTTPErrorsIn(err) = {}) =>
        IF Matched(err) = {} THEN w.status = 500
        ELSE w.status \in {ErrorMap[key] : key \in Matched(err)}

\* C2: a status among the caller's params is the response status, whatever
\* the error maps to and whatever HTTPError it holds.
C2_CallerStatusWins ==
    (op = "Error" /\ pc = "done" /\ NonZeroInts(params) # {}) =>
        w.status = params[Min(NonZeroInts(params))].n

\* C3: Error without a caller status, on an error whose chain holds an
\* HTTPError, value or pointer (here: answered as JSON): the response status
\* is that HTTPError's Status, and TreatError is handed its inner Err.
C3_HTTPErrorWins ==
    (/\ op = "Error" /\ pc = "done" /\ NonZeroInts(params) = {}
     /\ HTTPErrorsIn(err) # {}
     /\ GetAcceptedContentType(accept) = ContentTypeJSON) =>
        LET at == Min(HTTPErrorsIn(err))
        IN  /\ w.status = err[at].status
            /\ treated = SubSeq(err, at + 1, Len(err))

---------------------------------------------------------------------------
(* strconv and integer arithmetic as Go computes them. A numeral is a      *)
(* sequence of one-character strings.                                      *)

Digits == <<"0", "1", "2", "3", "4", "5", "6", "7", "8", "9">>

IsDigit(c) == \E i \in 1..10 : Digits[i] = c

DigitVal(c) == (CHOOSE i \in 1..10 : Digits[i] = c) - 1

RECURSIVE DecVal(_)
DecVal(s) ==
    IF s = <<>> THEN 0
    ELSE DecVal(SubSeq(s, 1, Len(s) - 1)) * 10 + DigitVal(s[Len(s)])

\* a bug Atoi could have: a sign is not accepted
AtoiNoSign(s) ==
    LET ok == s # <<>> /\ \A i \in 1..Len(s) : IsDigit(s[i])
    IN  [ok |-> ok, n |-> IF ok THEN DecVal(s) ELSE 0]

\* strconv.Atoi: an optional sign, then one or more decimal digits
Atoi(s) ==
    LET signed == s # <<>> /\ Head(s) \in {"+", "-"}
        body   == IF signed THEN Tail(s) ELSE s
        ok     == body # <<>> /\ \A i \in 1..Len(body) : IsDigit(body[i])
    IN  [ok |-> ok,
         n  |-> IF ~ok THEN 0
                ELSE IF signed /\ Head(s) = "-" THEN 0 - DecVal(body) ELSE DecVal(body)]

RECURSIVE Dec(_)
Dec(n) == IF n < 10 THEN <<Digits[n + 1]>> ELSE Dec(n \div 10) \o <<Digits[(n % 10) + 1]>>

\* strconv.Itoa
Itoa(n) == IF n < 0 THEN <<"-">> \o Dec(0 - n) ELSE Dec(n)

Abs(n) == IF n < 0 THEN 0 - n ELSE n

\* Go's / on ints truncates toward zero (b # 0)
GoDiv(a, b) ==
    IF (a < 0) = (b < 0) THEN Abs(a) \div Abs(b) ELSE 0 - (Abs(a) \div Abs(b))

\* Go's % on ints: the remainder has the sign of the dividend (b # 0)
GoMod(a, b) == a - b * GoDiv(a, b)

\* totalPages (util.go); the caller must not pass size = 0: the division panics
totalPages(size, tot) ==
    LET quotient  == GoDiv(tot, size)
        remainder == GoMod(tot, size)
    IN  CASE quotient = 0  -> 1
          [] remainder = 0 -> quotient
          [] OTHER         -> quotient + 1

\* max (util.go)
max(x, y) == IF x > y THEN x ELSE y

\* min (util.go): y = 0 yields x
min(x, y) == IF y = 0 THEN x ELSE IF x < y THEN x ELSE y

---------------------------------------------------------------------------
(* net/url: a raw query is a sequence of [key, value] pairs; url.Values    *)
(* maps each key to its values in order.                                   *)

PageParam    == "page"
PerPageParam == "per_page"
\* var PerPageDefault = 25
PerPageDefault == 25

\* url.URL.Query()
Query(raw) ==
    [key \in {raw[i].key : i \in 1..Len(raw)} |->
        LET at == {i \in 1..Len(raw) : raw[i].key = key}
            RECURSIVE Pick(_)
            Pick(i) == IF i > Len(raw) THEN <<>>
                       ELSE (IF i \in at THEN <<raw[i].value>> ELSE <<>>) \o Pick(i + 1)
        IN  Pick(1)]

\* url.Values.Get: the first value of the key, "" when there is none
ValuesGet(vs, key) == IF key \in DOMAIN vs /\ vs[key] # <<>> THEN vs[key][1] ELSE <<>>

\* url.Values.Set
ValuesSet(vs, key, value) ==
    [x \in (DOMAIN vs) \cup {key} |-> IF x = key THEN <<value>> ELSE vs[x]]

\* the keys of the model in the byte order url.Values.Encode sorts them
KeyOrder == <<"page", "per_page", "q">>

RECURSIVE EncodeFrom(_, _)
EncodeFrom(vs, i) ==
    IF i > Len(KeyOrder) THEN <<>>
    ELSE (IF KeyOrder[i] \in DOMAIN vs
          THEN [j \in 1..Len(vs[KeyOrder[i]]) |->
                    [key |-> KeyOrder[i], value |-> vs[KeyOrder[i]][j]]]
          ELSE <<>>) \o EncodeFrom(vs, i + 1)

\* url.Values.Encode: the pairs sorted by key
Encode(vs) == EncodeFrom(vs, 1)

\* url.URL.String(): the text of the URL, kept as its path and its query
URLString(u) == [path |-> u.path, query |-> u.query]

---------------------------------------------------------------------------
(* Pagination (pagination.go). p.url is Nil or "req": the pointer to the   *)
(* request's URL that PaginationFromRequest captured.                      *)

\* a bug WithPerPage could have: last is not recomputed
WithPerPageKeepLast(pg, v) == [pg EXCEPT !.perPage = v]

\* WithPerPage(val) applied to a Pagination (val # 0)
WithPerPage(pg, v) ==
    [pg EXCEPT !.perPage = v, !.last = totalPages(v, pg.total)]

\* stands for "no Pagination was returned": the call panicked
Panicked == [url |-> "panic", page |-> 0, perPage |-> 0, last |-> 0, total |-> 0]

RECURSIVE ApplyOptions(_, _)
\* for _, option := range options { option(&pagination) }; Panicked when an
\* option divides by zero
ApplyOptions(pg, os) ==
    IF os = <<>> THEN pg
    ELSE IF Head(os) = 0 THEN Panicked
    ELSE ApplyOptions(WithPerPage(pg, Head(os)), Tail(os))

\* NewPagination(url, totalItems, options...); Panicked when totalPages
\* divides by zero
NewPagination(u, totalItems, os) ==
    LET queryParams == Query(u.query)
        pageA    == Atoi(ValuesGet(queryParams, PageParam))
        perPageA == Atoi(ValuesGet(queryParams, PerPageParam))
        page     == IF pageA.ok THEN pageA.n ELSE 1
        perPage  == IF perPageA.ok THEN perPageA.n ELSE PerPageDefault
    IN  IF perPage = 0 THEN Panicked
        ELSE ApplyOptions([url |-> "req", page |-> page, perPage |-> perPage,
                           last |-> totalPages(perPage, totalItems),
                           total |-> totalItems], os)

\* Pagination.Prev
Prev(pg) == max(pg.page - 1, 1)

\* a bug Next could have: the page after the last one
NextUnclamped(pg) == pg.page + 1

\* Pagination.Next
Next(pg) == min(pg.page + 1, pg.last)

\* params := p.url.Query(); params.Set(page); params.Set(per_page)
AccessorParams(pg, u) ==
    ValuesSet(ValuesSet(Query(u.query), PageParam, Itoa(pg.page)),
              PerPageParam, Itoa(pg.perPage))

\* the accessor's tail: params.Set(page, n); p.url.RawQuery = params.Encode();
\* return p.url.String(). The URL written to is the one p.url points to.
AccessorResult(pg, u, n) ==
    LET u1 == [u EXCEPT !.query = Encode(ValuesSet(AccessorParams(pg, u), PageParam, Itoa(n)))]
    IN  [ret |-> URLString(u1), url |-> u1]

\* Pagination.PrevURL: [ret: the string returned, url: the request URL after]
PrevURL(pg, u) ==
    IF pg.url = Nil THEN [ret |-> EmptyString, url |-> u]
    ELSE IF pg.page > 1 THEN AccessorResult(pg, u, Prev(pg))
    ELSE [ret |-> EmptyString, url |-> u]

\* Pagination.NextURL
NextURL(pg, u) ==
    IF pg.url = Nil THEN [ret |-> EmptyString, url |-> u]
    ELSE IF pg.page # pg.last THEN AccessorResult(pg, u, Next(pg))
    ELSE [ret |-> EmptyString, url |-> u]

\* Pagination.LastURL
LastURL(pg, u) ==
    IF pg.url = Nil THEN [ret |-> EmptyString, url |-> u]
    ELSE AccessorResult(pg, u, pg.last)

\* a bug shouldRedirect could have: a page beyond the last one is rendered
shouldRedirectNoUpper(pg) == pg.page = 0 \/ pg.perPage = 0

\* Pagination.shouldRedirect
shouldRedirect(pg) ==
    CASE pg.page = 0       -> TRUE
      [] pg.page > pg.last -> TRUE
      [] pg.perPage = 0    -> TRUE
      [] OTHER             -> FALSE

RedirectChunk == [enc |-> "redirect", of |-> ""]

\* http.Redirect for a GET request
HTTPRedirect(rw, location, code) ==
    LET hadCT == "Content-Type" \in DOMAIN rw.hdr
        rw1   == WSetHeader(rw, "Location", location)
        rw2   == IF hadCT THEN rw1 ELSE WSetHeader(rw1, "Content-Type", "text/html; charset=utf-8")
        rw3   == WriteHeader(rw2, code)
    IN  IF hadCT THEN rw3 ELSE Write(rw3, RedirectChunk)

\* a bug redirect could have: the page is not corrected
redirectNoClamp(rw, pg, u) ==
    LET perPage == IF pg.perPage = 0 THEN PerPageDefault ELSE pg.perPage
        ps      == ValuesSet(ValuesSet(Query(u.query), PageParam, Itoa(pg.page)),
                             PerPageParam, Itoa(perPage))
    IN  HTTPRedirect(rw, URLString([u EXCEPT !.query = Encode(ps)]), 301)

\* Pagination.redirect: works on a copy of *r.URL
redirect(rw, pg, u) ==
    LET page0   == IF pg.page = 0 THEN 1 ELSE pg.page
        page    == IF page0 > pg.last THEN pg.last ELSE page0
        perPage == IF pg.perPage = 0 THEN PerPageDefault ELSE pg.perPage
        ps      == ValuesSet(ValuesSet(Query(u.query), PageParam, Itoa(page)),
                             PerPageParam, Itoa(perPage))
        uri     == [u EXCEPT !.query = Encode(ps)]
    IN  HTTPRedirect(rw, URLString(uri), 301)

\* Linkf = `<%s>; rel="%s"`
Link(target, rel) == [target |-> target, rel |-> rel]

\* a bug DefaultPaginationHeader could have: Link is set, not added
LinkSet(rw, target, rel) == WSetHeader(rw, "Link", Link(target, rel))

LinkAdd(rw, target, rel) == WAddHeader(rw, "Link", Link(target, rel))

\* DefaultPaginationHeader: [rw: the writer after, url: the request URL after]
DefaultPaginationHeader(rw, pg, u) ==
    LET rw1 == WSetHeader(WSetHeader(rw, "x-page", Itoa(pg.page)), "x-per-page", Itoa(pg.perPage))
        nx  == NextURL(pg, u)
        rw2 == IF pg.page # pg.last
               THEN LinkAdd(WSetHeader(rw1, "x-next-page", Itoa(Next(pg))), nx.ret, "next")
               ELSE rw1
        u2  == IF pg.page # pg.last THEN nx.url ELSE u
        pv  == PrevURL(pg, u2)
        rw3 == IF pg.page > 1
               THEN LinkAdd(WSetHeader(rw2, "x-prev-page", Itoa(Prev(pg))), pv.ret, "prev")
               ELSE rw2
        u3  == IF pg.page > 1 THEN pv.url ELSE u2
        ls  == LastURL(pg, u3)
        rw4 == WSetHeader(WSetHeader(rw3, "x-total", Itoa(pg.total)), "x-total-pages", Itoa(pg.last))
    IN  [rw |-> LinkAdd(rw4, ls.ret, "last"), url |-> ls.url]

\* DefaultPaginationBody: the envelope around v, and the request URL after the
\* three URL accessors ran
DefaultPaginationBody(pg, v, u) ==
    LET nx == NextURL(pg, u)
        pv == PrevURL(pg, nx.url)
        ls == LastURL(pg, pv.url)
    IN  [v   |-> [id |-> "simpleBody", kind |-> "struct", json |-> v.json,
                  xml |-> v.xml, xmlDecl |-> v.xmlDecl],
         url |-> ls.url]

---------------------------------------------------------------------------
(* A request served with pagination: PaginationFromRequest, then any URL   *)
(* accessors, then Pagination.Render (or the header function on its own).  *)

PageStrings ==
    { <<>>, <<"x">>, <<"0">>, <<"1">>, <<"3">>, <<"5">>, <<"-", "2">>, <<"+", "3">> }

PerPageStrings ==
    { <<>>, <<"x">>, <<"0">>, <<"7">>, <<"2", "0">>, <<"-", "5">> }

\* the request URLs: /users with an optional q, page and per_page
RequestURLs ==
    { [path  |-> "/users",
       query |-> (IF hasQ THEN <<[key |-> "q", value |-> <<"g", "o">>]>> ELSE <<>>)
                 \o (IF pg = <<>> THEN <<>> ELSE <<[key |-> PageParam, value |-> pg]>>)
                 \o (IF pp = <<>> THEN <<>> ELSE <<[key |-> PerPageParam, value |-> pp]>>)] :
      hasQ \in BOOLEAN, pg \in PageStrings, pp \in PerPageStrings }

Totals == {0, 10, 60}

\* the values handed to WithPerPage
PerPageOptions == {0, 4, -10}

StructValue ==
    [id |-> "struct", kind |-> "struct", json |-> TRUE, xml |-> TRUE, xmlDecl |-> FALSE]

InitPage ==
    /\ pc = "start"
    /\ op = ""
    /\ w = FreshWriter
    /\ params \in {<<>>, <<IntParam(201)>>}
    /\ val = StructValue
    /\ accept \in { <<"application/json">>, <<"text/event-stream">> }
    /\ err = <<>>
    /\ treated = <<>>
    /\ reqURL \in RequestURLs
    /\ p = NoPagination
    /\ total \in Totals
    /\ opts \in SeqsUpTo(PerPageOptions, MaxOpts)
    /\ inHeader \in BOOLEAN
    /\ calls = <<>>
    /\ ret = EmptyString
    /\ ch = NoChan
    /\ ctxDone = FALSE
    /\ recvd = <<>>
    /\ reqContentType = <<>>
    /\ reqBody = NoBody
    /\ vTarget = Zero

\* p := PaginationFromRequest(r, total, opts...)
NewPaginationCall ==
    /\ pc = "start"
    /\ LET made == NewPagination(reqURL, total, opts)
       IN  IF made = Panicked
           THEN pc' = "panic" /\ p' = p
           ELSE pc' = "built" /\ p' = made
    /\ op' = "NewPagination"
    /\ UNCHANGED <<reqContentType, reqBody, vTarget, ch, ctxDone, recvd, w, params, val, accept, err, treated, reqURL, total, opts,
                   inHeader, calls, ret>>

\* var p Pagination: the zero value of the exported type
ZeroPagination ==
    /\ pc = "start"
    /\ pc' = "built"
    /\ p' = NoPagination
    /\ op' = "Pagination{}"
    /\ UNCHANGED <<reqContentType, reqBody, vTarget, ch, ctxDone, recvd, w, params, val, accept, err, treated, reqURL, total, opts,
                   inHeader, calls, ret>>

AccessorCall(name, res) ==
    /\ pc = "built"
    /\ op' = name
    /\ ret' = res.ret
    /\ reqURL' = res.url
    /\ UNCHANGED <<reqContentType, reqBody, vTarget, ch, ctxDone, recvd, pc, w, params, val, accept, err, treated, p, total, opts,
                   inHeader, calls>>

NextURLCall == AccessorCall("NextURL", NextURL(p, reqURL))
PrevURLCall == AccessorCall("PrevURL", PrevURL(p, reqURL))
LastURLCall == AccessorCall("LastURL", LastURL(p, reqURL))

\* DefaultPaginationHeader(w, p) called on its own
PaginationHeaderCall ==
    /\ pc = "built"
    /\ LET out == DefaultPaginationHeader(w, p, reqURL)
       IN  w' = out.rw /\ reqURL' = out.url
    /\ pc' = "done"
    /\ op' = "DefaultPaginationHeader"
    /\ UNCHANGED <<reqContentType, reqBody, vTarget, ch, ctxDone, recvd, params, val, accept, err, treated, p, total, opts, inHeader,
                   calls, ret>>

\* p.Render(w, r, v, params...)
RenderCall ==
    /\ pc = "built"
    /\ op' = "Render"
    /\ IF shouldRedirect(p)
       THEN /\ w' = redirect(w, p, reqURL)
            /\ calls' = <<"redirect">>
            /\ pc' = "done"
            /\ UNCHANGED <<val, reqURL>>
       ELSE IF inHeader
       THEN LET hd  == DefaultPaginationHeader(w, p, reqURL)
                out == Respond(hd.rw, accept, val, params)
            IN  /\ w' = out.rw
                /\ reqURL' = hd.url
                /\ calls' = <<"PaginationHeader", "Render">>
                /\ pc' = IF out.panic THEN "panic" ELSE "done"
                /\ UNCHANGED val
       ELSE LET bd  == DefaultPaginationBody(p, val, reqURL)
                out == Respond(w, accept, bd.v, params)
            IN  /\ w' = out.rw
                /\ reqURL' = bd.url
                /\ val' = bd.v
                /\ calls' = <<"PaginationBody", "Render">>
                /\ pc' = IF out.panic THEN "panic" ELSE "done"
    /\ UNCHANGED <<reqContentType, reqBody, vTarget, ch, ctxDone, recvd, params, accept, err, treated, p, total, opts, inHeader, ret>>

NextPage ==
    \/ NewPaginationCall
    \/ ZeroPagination
    \/ NextURLCall
    \/ PrevURLCall
    \/ LastURLCall
    \/ PaginationHeaderCall
    \/ RenderCall

SpecPage == InitPage /\ [][NextPage]_vars

---------------------------------------------------------------------------
(* Pagination claims *)

\* the response the client sees: the headers that went out with the status line
Location == HeaderGet(w.sent, "Location")

OtherKeys(vs) == (DOMAIN vs) \ {PageParam, PerPageParam}

\* Render, on a Pagination made from the request, took the redirect branch
Redirected == op = "Render" /\ pc = "done" /\ calls = <<"redirect">> /\ p.url = "req"

\* C7: when Render redirects, the response is a 301 whose Location is the
\* request's own path, with page a number within 1..last (the page, clamped),
\* per_page the perPage (PerPageDefault when perPage is 0), and every other
\* query parameter of the request as it was.
C7_RedirectTarget ==
    Redirected =>
        LET req     == Query(reqURL.query)
            loc     == Query(Location.query)
            clamped == IF p.page < 1 THEN 1
                       ELSE IF p.page > p.last THEN p.last ELSE p.page
        IN  /\ w.status = 301
            /\ Location.path = reqURL.path
            /\ clamped \in 1..p.last
            /\ loc[PageParam] = <<Itoa(clamped)>>
            /\ loc[PerPageParam] =
                   <<Itoa(IF p.perPage = 0 THEN PerPageDefault ELSE p.perPage)>>
            /\ OtherKeys(loc) = OtherKeys(req)
            /\ \A k \in OtherKeys(req) : loc[k] = req[k]

PaginationHeaderKeys ==
    { CanonicalHeaderKey(k) :
        k \in {"x-page", "x-per-page", "x-next-page", "x-prev-page", "x-total",
               "x-total-pages", "Link"} }

\* the body chunks that carry a rendered value
Payloads == { i \in 1..Len(w.body) : w.body[i].enc \in {"json", "xml", "text", "html"} }

\* C8: Render redirects exactly when page = 0, page > last or perPage = 0. A
\* redirecting call sets no pagination header, builds no envelope and writes
\* no payload. Any other call puts the metadata in one place only (the headers
\* when PaginationInHeader, the envelope otherwise), hands the value to the
\* renderer once, and a renderer that returns has written one payload.
C8_RenderRedirectsIff ==
    (op = "Render" /\ pc \in {"done", "panic"}) =>
        LET red == p.page = 0 \/ p.page > p.last \/ p.perPage = 0
        IN  /\ (calls = <<"redirect">>) <=> red
            /\ red => /\ w.status = 301
                      /\ (DOMAIN w.hdr) \cap PaginationHeaderKeys = {}
                      /\ val = StructValue
                      /\ Payloads = {}
            /\ (~red /\ inHeader) =>
                      /\ calls = <<"PaginationHeader", "Render">>
                      /\ PaginationHeaderKeys \cap (DOMAIN w.hdr) # {}
                      /\ val = StructValue
            /\ (~red /\ ~inHeader) =>
                      /\ calls = <<"PaginationBody", "Render">>
                      /\ (DOMAIN w.hdr) \cap PaginationHeaderKeys = {}
                      /\ val.id = "simpleBody"
            /\ (~red /\ pc = "done") =>
                      /\ Cardinality(Payloads) = 1
                      /\ \A i \in Payloads : w.body[i].of = val.id

\* a page beyond the last one was redirected, and a page within range was rendered
C8_Witness ==
    /\ op = "Render"
    /\ pc = "done"
    /\ \/ calls = <<"redirect">> /\ p.page > p.last /\ p.page # 0 /\ p.perPage # 0
       \/ calls = <<"PaginationBody", "Render">> /\ p.page = p.last /\ p.page > 1

\* DefaultPaginationHeader ran on the writer
HeaderEmitted ==
    \/ op = "DefaultPaginationHeader" /\ pc = "done"
    \/ op = "Render" /\ Len(calls) = 2 /\ calls[1] = "PaginationHeader"

Rels(links) == [i \in 1..Len(links) |-> links[i].rel]

\* C9: after DefaultPaginationHeader, x-next-page and a rel="next" Link are
\* there exactly when page # last, x-prev-page and a rel="prev" Link exactly
\* when page > 1, a rel="last" Link always; the Link values are the ones
\* expected, in the order next, prev, last.
C9_HeaderEmission ==
    HeaderEmitted =>
        LET links == HeaderValues(w.hdr, "Link")
            rels  == Rels(links)
            has(r) == \E i \in 1..Len(rels) : rels[i] = r
        IN  /\ (CanonicalHeaderKey("x-next-page") \in DOMAIN w.hdr) <=> (p.page # p.last)
            /\ has("next") <=> (p.page # p.last)
            /\ (CanonicalHeaderKey("x-prev-page") \in DOMAIN w.hdr) <=> (p.page > 1)
            /\ has("prev") <=> (p.page > 1)
            /\ has("last")
            /\ Len(links) = 1 + (IF p.page # p.last THEN 1 ELSE 0)
                              + (IF p.page > 1 THEN 1 ELSE 0)
            /\ rels = (IF p.page # p.last THEN <<"next">> ELSE <<>>)
                      \o (IF p.page > 1 THEN <<"prev">> ELSE <<>>)
                      \o <<"last">>

\* a middle page: all three Link values went out
C9_Witness ==
    /\ HeaderEmitted
    /\ p.page > 1
    /\ p.page # p.last
    /\ Len(HeaderValues(w.hdr, "Link")) = 3

\* ceil(a / b) for a >= 0, b >= 1
Ceil(a, b) == CHOOSE n \in 0..a : n * b >= a /\ (n = 0 \/ (n - 1) * b < a)

\* NewPagination returned p
Returned == pc # "start" /\ pc # "panic" /\ p.url = "req"

\* C10: a Pagination NewPagination returned, with total >= 0 and a final
\* perPage >= 1 (from the query, the default or a WithPerPage option), has
\* last = max(1, ceil(total / perPage)).
C10_LastIsCeil ==
    (Returned /\ p.total >= 0 /\ p.perPage >= 1) =>
        p.last = (IF Ceil(p.total, p.perPage) < 1 THEN 1 ELSE Ceil(p.total, p.perPage))

\* an option changed perPage after parsing and last was recomputed, rounding up
C10_Witness ==
    /\ Returned
    /\ opts # <<>>
    /\ p.perPage = 4
    /\ ValuesGet(Query(reqURL.query), PerPageParam) = <<"7">>
    /\ p.total = 10
    /\ p.last = 3

\* C11: every Pagination NewPagination returns, whatever integers the page
\* and per_page parameters hold (negative ones included), whatever the total
\* (>= 0) and the options, has last >= 1.
C11_LastAtLeastOne == Returned => p.last >= 1

\* the request asks for a per-page of 0, or an option sets it
ZeroPerPage ==
    \/ LET a == Atoi(ValuesGet(Query(reqURL.query), PerPageParam)) IN a.ok /\ a.n = 0
    \/ \E i \in 1..Len(opts) : opts[i] = 0

\* C12: NewPagination on a per_page of 0, or with WithPerPage(0), returns a
\* Pagination (it does not fail), and Render on a Pagination whose perPage is
\* 0 redirects to per_page = PerPageDefault.
C12_ZeroPerPageCorrected ==
    /\ (op = "NewPagination" /\ ZeroPerPage) => pc = "built"
    /\ (op = "Render" /\ p.url = "req" /\ p.perPage = 0) =>
           /\ calls = <<"redirect">>
           /\ Query(Location.query)[PerPageParam] = <<Itoa(PerPageDefault)>>

\* the integers a query parameter of the model can spell
SpelledInts == (0 - 99)..99

\* s spells the integer n: its decimal digits, after "-" when negative and
\* after an optional "+" otherwise
Spells(s, n) == s = Itoa(n) \/ (n >= 0 /\ s = <<"+">> \o Itoa(n))

\* the integer s spells, or the fallback when it spells none
IntOr(s, fallback) ==
    IF \E n \in SpelledInts : Spells(s, n)
    THEN CHOOSE n \in SpelledInts : Spells(s, n)
    ELSE fallback

\* NewPagination just returned p
JustBuilt == op = "NewPagination" /\ pc = "built"

\* C13: NewPagination takes page and per_page from the query as integers, 1
\* and PerPageDefault where the parameter is absent or no integer; an option
\* aside, perPage is the parsed one; total is stored as given.
C13_ParsesQuery ==
    JustBuilt =>
        LET q == Query(reqURL.query)
        IN  /\ p.page = IntOr(ValuesGet(q, PageParam), 1)
            /\ opts = <<>> => p.perPage = IntOr(ValuesGet(q, PerPageParam), PerPageDefault)
            /\ p.total = total

\* a page that is no integer fell back to 1 beside a per_page taken as given,
\* or a negative page was taken as given beside an absent per_page
C13_Witness ==
    /\ JustBuilt
    /\ opts = <<>>
    /\ LET q == Query(reqURL.query)
       IN  \/ /\ ValuesGet(q, PageParam) = <<"x">> /\ p.page = 1
              /\ ValuesGet(q, PerPageParam) = <<"7">> /\ p.perPage = 7
           \/ /\ ValuesGet(q, PageParam) = <<"-", "2">> /\ p.page = 0 - 2
              /\ PerPageParam \notin DOMAIN q /\ p.perPage = PerPageDefault

\* 1 <= page <= last
ValidPage(pg) == pg.url = "req" /\ 1 <= pg.page /\ pg.page <= pg.last

\* u with page replaced by n and per_page by the Pagination's perPage: same
\* path, every other parameter as in src
Replaced(u, src, pg, n) ==
    LET had == Query(src.query)
        got == Query(u.query)
    IN  /\ u.path = src.path
        /\ DOMAIN got = (DOMAIN had) \cup {PageParam, PerPageParam}
        /\ got[PageParam] = <<Itoa(n)>>
        /\ got[PerPageParam] = <<Itoa(pg.perPage)>>
        /\ \A k \in OtherKeys(had) : got[k] = had[k]

\* C14: in a valid state (1 <= page <= last) Next() = min(page+1, last) and
\* Prev() = max(page-1, 1), so 1 <= Prev() <= page <= Next() <= last; a call
\* of PrevURL at page 1, or of NextURL at the last page, returns ""; any other
\* call returns the source URL with page replaced by Prev() / Next().
C14_NextPrev ==
    [][ValidPage(p) =>
          LET nxt == IF p.page + 1 < p.last THEN p.page + 1 ELSE p.last
              prv == IF p.page - 1 > 1 THEN p.page - 1 ELSE 1
          IN  /\ Next(p) = nxt /\ Prev(p) = prv
              /\ 1 <= Prev(p) /\ Prev(p) <= p.page
              /\ p.page <= Next(p) /\ Next(p) <= p.last
              /\ (pc = "built" /\ op' = "NextURL") =>
                     IF p.page = p.last THEN ret' = EmptyString
                     ELSE Replaced(ret', reqURL, p, nxt)
              /\ (pc = "built" /\ op' = "PrevURL") =>
                     IF p.page = 1 THEN ret' = EmptyString
                     ELSE Replaced(ret', reqURL, p, prv)]_vars

\* NextURL returned a URL from a middle page of a request carrying another
\* parameter
C14_Witness ==
    /\ op = "NextURL"
    /\ ValidPage(p)
    /\ 1 < p.page /\ p.page < p.last
    /\ ret # EmptyString
    /\ "q" \in DOMAIN Query(ret.query)

\* C15: no URL accessor, and no Render, changes the query string of the URL
\* NewPagination was given.
C15_SourceURLUntouched == [][reqURL'.query = reqURL.query]_vars

---------------------------------------------------------------------------
(* Channels: Stream and channelIntoSlice (render.go), and DefaultResponder  *)
(* on any value. The producer and the request's context run beside the     *)
(* call: every iteration of a receive loop is a step of its own.           *)

\* what a producer sends; "bad" is an item json.Marshal fails on
Items == {"a", "b", "bad"}

Marshals(item) == item # "bad"

ChanValue ==
    [id |-> "chan", kind |-> "chan", json |-> FALSE, xml |-> FALSE, xmlDecl |-> FALSE]

\* a bug channelIntoSlice could have: the last item received is lost
SliceValueDropLast(items) ==
    LET kept == IF items = <<>> THEN <<>> ELSE SubSeq(items, 1, Len(items) - 1)
        good == \A i \in 1..Len(kept) : Marshals(kept[i])
    IN  [id |-> "slice", kind |-> "slice", json |-> good, xml |-> good,
         xmlDecl |-> FALSE, items |-> kept]

\* the []interface{} channelIntoSlice returns
SliceValue(items) ==
    LET good == \A i \in 1..Len(items) : Marshals(items[i])
    IN  [id |-> "slice", kind |-> "slice", json |-> good, xml |-> good,
         xmlDecl |-> FALSE, items |-> items]

\* a bug the select could have: the context is not among its cases
ReadyNoCtx(c, done) == IF c.buf # <<>> \/ c.closed THEN {"recv"} ELSE {}

\* the cases of the select that are ready: ctx.Done() once the context is
\* cancelled, the channel when it holds an item or is closed
Ready(c, done) ==
    (IF done THEN {"ctx"} ELSE {}) \cup (IF c.buf # <<>> \/ c.closed THEN {"recv"} ELSE {})

\* Stream before its loop: the headers and the status line
StreamOpen(rw, protoMajor) ==
    LET rw1 == WSetHeader(WSetHeader(rw, "Content-Type", "text/event-stream; charset=utf-8"),
                          "Cache-Control", "no-cache")
        rw2 == IF protoMajor = 1 THEN WSetHeader(rw1, "Connection", "keep-alive") ELSE rw1
    IN  WriteHeader(rw2, 200)

TimeoutFrame == [enc |-> "event: error", of |-> "Server Timeout"]
EOFFrame     == [enc |-> "event: EOF", of |-> ""]

\* a bug Stream could have: a data frame even for an item that fails to marshal
ItemFrameDataOnly(item) == [enc |-> "event: data", of |-> item]

\* the frame Stream writes for one received item
ItemFrame(item) ==
    IF Marshals(item) THEN [enc |-> "event: data", of |-> item]
    ELSE [enc |-> "event: error", of |-> item]

RespondAccepts ==
    { <<"application/json">>, <<"text/event-stream">>, <<"text/html">>,
      <<"application/xhtml+xml", ";", "q=0.9", ",", "application/json">> }

InitRespond ==
    /\ pc = "start"
    /\ op = ""
    /\ w = FreshWriter
    /\ params \in {<<>>, <<IntParam(201)>>}
    /\ val \in {ChanValue, StructValue}
    /\ accept \in RespondAccepts
    /\ err = <<>>
    /\ treated = <<>>
    /\ reqURL = NoURL
    /\ p = NoPagination
    /\ total = 0
    /\ opts = <<>>
    /\ inHeader = TRUE
    /\ calls = <<>>
    /\ ret = EmptyString
    /\ ch \in { [pending |-> items, buf |-> <<>>, closed |-> FALSE, sent |-> <<>>] :
                  items \in SeqsUpTo(Items, MaxItems) }
    /\ ctxDone = FALSE
    /\ recvd = <<>>
    /\ reqContentType = <<>>
    /\ reqBody = NoBody
    /\ vTarget = Zero

respondFrame == <<reqContentType, reqBody, vTarget, params, accept, err, treated, reqURL, p, total, opts, inHeader, calls, ret>>

\* the producer and the context act while the call has not returned
Running == val.kind = "chan" /\ pc \in {"start", "stream", "collect"}

\* the producer: ch <- item
ProducerSend ==
    /\ Running
    /\ ~ch.closed /\ ch.pending # <<>> /\ ch.buf = <<>>
    /\ ch' = [ch EXCEPT !.pending = Tail(ch.pending), !.buf = <<Head(ch.pending)>>,
                        !.sent = Append(ch.sent, Head(ch.pending))]
    /\ UNCHANGED <<pc, op, w, val, ctxDone, recvd, respondFrame>>

\* the producer: close(ch)
ProducerClose ==
    /\ Running
    /\ ~ch.closed
    /\ ch' = [ch EXCEPT !.closed = TRUE]
    /\ UNCHANGED <<pc, op, w, val, ctxDone, recvd, respondFrame>>

\* the request's context is cancelled
CtxCancel ==
    /\ Running
    /\ ~ctxDone
    /\ ctxDone' = TRUE
    /\ UNCHANGED <<pc, op, w, val, ch, recvd, respondFrame>>

\* Stream(w, r, v), up to its loop
StreamCall ==
    /\ pc = "start"
    /\ op' = "Stream"
    /\ IF val.kind # "chan"
       THEN pc' = "panic" /\ w' = w
       ELSE /\ pc' = "stream"
            /\ \E protoMajor \in {1, 2} : w' = StreamOpen(w, protoMajor)
    /\ UNCHANGED <<val, ch, ctxDone, recvd, respondFrame>>

\* Stream's loop, select case 0: <-ctx.Done()
StreamCtxDone ==
    /\ pc = "stream"
    /\ "ctx" \in Ready(ch, ctxDone)
    /\ w' = Write(w, TimeoutFrame)
    /\ pc' = "done"
    /\ UNCHANGED <<op, val, ch, ctxDone, recvd, respondFrame>>

\* Stream's loop, select default case: v, ok := <-stream
StreamRecv ==
    /\ pc = "stream"
    /\ "recv" \in Ready(ch, ctxDone)
    /\ IF ch.buf = <<>>
       THEN /\ w' = Write(w, EOFFrame)
            /\ pc' = "done"
            /\ UNCHANGED <<ch, recvd>>
       ELSE /\ w' = Write(w, ItemFrame(Head(ch.buf)))
            /\ recvd' = Append(recvd, Head(ch.buf))
            /\ ch' = [ch EXCEPT !.buf = Tail(ch.buf)]
            /\ pc' = pc
    /\ UNCHANGED <<op, val, ctxDone, respondFrame>>

\* DefaultResponder after the channel check: the switch on the accepted type
RespondFinish(rw, v) ==
    LET out == Respond(rw, accept, v, params)
    IN  /\ w' = out.rw
        /\ val' = v
        /\ pc' = IF out.panic THEN "panic" ELSE "done"

\* Respond(w, r, v, params...): a channel goes to channelIntoSlice first
RespondCall ==
    /\ pc = "start"
    /\ op' = "Respond"
    /\ IF val.kind = "chan"
       THEN pc' = "collect" /\ UNCHANGED <<w, val>>
       ELSE RespondFinish(w, val)
    /\ UNCHANGED <<reqContentType, reqBody, vTarget, ch, ctxDone, recvd, respondFrame>>

\* channelIntoSlice, select case 0: http.Error 504, return nil; then the switch
CollectCtxDone ==
    /\ pc = "collect"
    /\ "ctx" \in Ready(ch, ctxDone)
    /\ RespondFinish(HTTPErrorReply(w, 504), NoValue)
    /\ UNCHANGED <<op, ch, ctxDone, recvd, respondFrame>>

\* channelIntoSlice, select default case: append the item, or return the
\* slice when the channel is closed; then the switch
CollectRecv ==
    /\ pc = "collect"
    /\ "recv" \in Ready(ch, ctxDone)
    /\ IF ch.buf = <<>>
       THEN /\ RespondFinish(w, SliceValue(recvd))
            /\ UNCHANGED <<ch, recvd>>
       ELSE /\ recvd' = Append(recvd, Head(ch.buf))
            /\ ch' = [ch EXCEPT !.buf = Tail(ch.buf)]
            /\ UNCHANGED <<pc, w, val>>
    /\ UNCHANGED <<op, ctxDone, respondFrame>>

NextRespond ==
    \/ ProducerSend
    \/ ProducerClose
    \/ CtxCancel
    \/ StreamCall
    \/ StreamCtxDone
    \/ StreamRecv
    \/ RespondCall
    \/ CollectCtxDone
    \/ CollectRecv

SpecRespond == InitRespond /\ [][NextRespond]_vars

\* reflect.Select picks among the ready cases at random: a case that stays
\* ready is picked in the end
SpecRespondLive ==
    /\ InitRespond
    /\ [][NextRespond]_vars
    /\ WF_vars(StreamCtxDone)
    /\ WF_vars(StreamRecv)

---------------------------------------------------------------------------
(* Claims about Stream, Respond and the writers' funnel *)

\* Stream is in its loop, or has returned
Streaming == op = "Stream" /\ pc \in {"stream", "done"}

\* the frame an item calls for
ExpectedFrame(item) ==
    [enc |-> IF item \in {"a", "b"} THEN "event: data" ELSE "event: error", of |-> item]

\* C16: after the status line (200, written once) Stream's output is one
\* frame per item received, in receive order (data, or error for an item
\* that fails to marshal, the loop going on), then, once it has returned,
\* one terminal frame and nothing more: EOF when the source was found
\* closed, the "Server Timeout" error when cancellation was selected. The
\* items received are the ones sent, in order.
C16_StreamFrames ==
    Streaming =>
        LET frames == [i \in 1..Len(recvd) |-> ExpectedFrame(recvd[i])]
        IN  /\ w.status = 200 /\ w.wh = <<200>>
            /\ recvd \o ch.buf = ch.sent
            /\ IF pc = "stream" THEN w.body = frames
               ELSE \E t \in {EOFFrame, TimeoutFrame} :
                       /\ w.body = Append(frames, t)
                       /\ t = EOFFrame => (ch.closed /\ ch.buf = <<>>)
                       /\ t = TimeoutFrame => ctxDone

\* an item failed to marshal, the next one was streamed, then the source closed
C16_Witness ==
    /\ op = "Stream" /\ pc = "done"
    /\ recvd = <<"bad", "a">>
    /\ w.body[Len(w.body)] = EOFFrame

\* C17: Stream returns only after the source closed or the context was
\* cancelled, and once either has happened it does return, whatever items
\* are ready.
C17_StreamTerminates ==
    /\ []((op = "Stream" /\ pc = "done") => (ch.closed \/ ctxDone))
    /\ ((pc = "stream" /\ (ch.closed \/ ctxDone)) ~> (pc = "done"))

\* Stream returned on cancellation while the open source had an item ready
C17_Witness ==
    /\ op = "Stream" /\ pc = "done"
    /\ ctxDone /\ ~ch.closed /\ ch.buf # <<>>
    /\ w.body[Len(w.body)] = TimeoutFrame

\* Respond was given a channel and has ended
RespondedChan == op = "Respond" /\ val.kind \in {"slice", "nil"} /\ pc \in {"done", "panic"}

\* C18: Respond on a channel, for a request accepting text/event-stream,
\* streams it: the call does not fail, the response has Content-Type
\* text/event-stream and carries the items as event frames.
C18_ChannelIsStreamed ==
    (RespondedChan /\ GetAcceptedContentType(accept) = ContentTypeEventStream) =>
        /\ pc = "done"
        /\ HeaderGet(w.sent, "Content-Type") = "text/event-stream; charset=utf-8"
        /\ \A i \in 1..Len(recvd) : i <= Len(w.body) /\ w.body[i] = ExpectedFrame(recvd[i])

\* C19: Respond for a request accepting HTML writes the payload through the
\* HTML writer, with Content-Type "text/html; charset=utf-8".
C19_HTMLAccepted ==
    (op = "Respond" /\ pc = "done" /\ val = StructValue
     /\ GetAcceptedContentType(accept) = ContentTypeHTML) =>
        /\ HeaderGet(w.sent, "Content-Type") = "text/html; charset=utf-8"
        /\ \E i \in 1..Len(w.body) : w.body[i].enc = "html"

\* C20: JSON, XML, PlainText and HTML on an encodable value write nothing
\* before Blob has set the headers and written the status line: the status
\* line is written once, by WriteHeader, with the headers set; it is the
\* first integer of params that is not zero (200 without one).
C20_BlobSingleFunnel ==
    (/\ op \in {"JSON", "XML", "PlainText", "HTML"} /\ pc = "done"
     /\ op = "JSON" => val.json
     /\ op = "XML" => val.xml) =>
        /\ w.wh = <<w.status>>
        /\ w.status = IF NonZeroInts(params) = {} THEN 200
                      ELSE Deref(params[Min(NonZeroInts(params))]).n
        /\ CanonicalHeaderKey("Content-Type") \in DOMAIN w.sent

---------------------------------------------------------------------------
(* The request side (content_type.go, decoder.go): the classifiers of a    *)
(* header value and the decoders of a request body. A body is an io.Reader *)
(* over a sequence of tokens: "value" is a well-formed document of the     *)
(* format the decoder expects, "bad" a malformed one, " " white space.     *)
(* The reader delivers its tokens in order and then io.EOF, or it fails    *)
(* for good with another error once failAt tokens are delivered (a broken  *)
(* connection, http.MaxBytesReader); failAt = -1 is a reader that does not *)
(* fail.                                                                   *)

\* longest header value, in tokens, handed to a classifier
MaxHeaderLen == 3
\* longest request body, in tokens
MaxBody == 3

ErrUnableToParseContentType == "ErrUnableToParseContentType"
\* what a decoder stored behind v
Decoded == "decoded"

\* where reading stops: the end of the data, or the point of failure
ReaderEnd(r) == IF r.failAt < 0 THEN Len(r.data) ELSE r.failAt

\* the reader after Read calls that delivered the tokens up to position n
ReadTo(r, n) ==
    LET stop == IF n < ReaderEnd(r) THEN n ELSE ReaderEnd(r)
    IN  [r EXCEPT !.pos = IF stop > r.pos THEN stop ELSE r.pos]

\* a drain that reads nothing
DrainNothing(r) == r

RECURSIVE Drain(_)
\* io.Copy(io.Discard, r): Read until the reader reports io.EOF or an error
Drain(r) == IF r.pos >= ReaderEnd(r) THEN r ELSE Drain(ReadTo(r, r.pos + 1))

RECURSIVE FirstToken(_, _)
\* the position, from i on, of the first token that is not white space;
\* Len(data) + 1 when there is none
FirstToken(data, i) ==
    IF i > Len(data) \/ data[i] # " " THEN i ELSE FirstToken(data, i + 1)

\* json.NewDecoder(r).Decode(v) and xml.NewDecoder(r).Decode(v): read until
\* the first value is complete or known to be malformed, then unmarshal it.
\* The decoder reads through a buffer: ahead is the number of tokens after
\* the value that the Read calls delivered along with it.
Decode(r, v, ahead) ==
    LET i == FirstToken(r.data, r.pos + 1)
    IN  IF i > ReaderEnd(r)
        THEN [r |-> ReadTo(r, ReaderEnd(r)), v |-> v,
              err |-> <<LeafError(IF r.failAt < 0 THEN {"io.EOF"} ELSE {})>>]
        ELSE [r |-> ReadTo(r, i + ahead),
              v |-> IF r.data[i] = "value" THEN Decoded ELSE v,
              err |-> IF r.data[i] = "value" THEN <<>> ELSE <<LeafError({})>>]

\* DecodeJSON: defer io.Copy(io.Discard, r); return json.NewDecoder(r).Decode(v)
DecodeJSON(r, v, ahead) ==
    LET d == Decode(r, v, ahead) IN [d EXCEPT !.r = Drain(d.r)]

\* DecodeXML: defer io.Copy(io.Discard, r); return xml.NewDecoder(r).Decode(v)
DecodeXML(r, v, ahead) ==
    LET d == Decode(r, v, ahead) IN [d EXCEPT !.r = Drain(d.r)]

\* DecodeForm: form.NewDecoder(r).Decode(v), a decoder of another module: it
\* reads some of the body and succeeds or fails; nothing drains the reader
DecodeForm(r, v, ahead, ok) ==
    [r |-> ReadTo(r, ahead),
     v |-> IF ok THEN Decoded ELSE v,
     err |-> IF ok THEN <<>> ELSE <<LeafError({})>>]

\* a DefaultDecoder that takes a body of unknown type for JSON
DefaultDecoderGuessJSON(hdr, r, v, ahead, ok) ==
    LET ct == GetContentType(hdr)
    IN  CASE ct \in {ContentTypeJSON, ContentTypeUnknown} -> DecodeJSON(r, v, ahead)
          [] ct = ContentTypeXML -> DecodeXML(r, v, ahead)
          [] ct = ContentTypeForm -> DecodeForm(r, v, ahead, ok)
          [] OTHER -> [r |-> r, v |-> v, err |-> <<>>]

\* DefaultDecoder: the switch over GetRequestContentType(r), the class of the
\* request's Content-Type header
DefaultDecoder(hdr, r, v, ahead, ok) ==
    LET ct == GetContentType(hdr)
    IN  CASE ct = ContentTypeJSON -> DecodeJSON(r, v, ahead)
          [] ct = ContentTypeXML -> DecodeXML(r, v, ahead)
          [] ct = ContentTypeForm -> DecodeForm(r, v, ahead, ok)
          [] ct = ContentTypePlainText -> [r |-> r, v |-> v, err |-> <<>>]
          [] ct \in {ContentTypeEventStream, ContentTypeHTML} ->
                [r |-> r, v |-> v, err |-> <<>>]
          [] OTHER -> [r |-> r, v |-> v,
                       err |-> <<LeafError({ErrUnableToParseContentType})>>]

\* the media types of the table
TableTokens ==
    { "text/plain", "text/html", "application/xhtml+xml", "application/json",
      "text/javascript", "text/xml", "application/xml",
      "application/x-www-form-urlencoded", "text/event-stream" }

\* the header values handed to the classifiers ("" is an absent header)
HeaderStrings ==
    SeqsUpTo({ " ", ";", ",", "application/json", "text/xml", "Application/JSON",
               "q=0.9", "*/*" }, MaxHeaderLen)
        \cup {<<t>> : t \in TableTokens}

\* the request bodies, unread
Bodies ==
    UNION { { [data |-> d, pos |-> 0, failAt |-> f] : f \in -1 .. Len(d) } :
            d \in SeqsUpTo({"value", "bad", " "}, MaxBody) }

InitRequest ==
    /\ pc = "start"
    /\ op = ""
    /\ w = FreshWriter
    /\ params = <<>>
    /\ val = NoValue
    /\ accept = <<>>
    /\ err = <<>>
    /\ treated = <<>>
    /\ reqURL = NoURL
    /\ p = NoPagination
    /\ total = 0
    /\ opts = <<>>
    /\ inHeader = TRUE
    /\ calls = <<>>
    /\ ret = ContentTypeUnknown
    /\ ch = NoChan
    /\ ctxDone = FALSE
    /\ recvd = <<>>
    /\ reqContentType = <<>>
    /\ reqBody = NoBody
    /\ vTarget = Zero

\* GetRequestContentType(r): GetContentType(r.Header.Get("Content-Type"))
GetRequestContentTypeCall ==
    /\ pc = "start"
    /\ \E hdr \in HeaderStrings :
          /\ reqContentType' = hdr
          /\ ret' = GetContentType(hdr)
    /\ op' = "GetRequestContentType"
    /\ pc' = "done"
    /\ UNCHANGED <<accept, err, reqBody, vTarget, w, params, val, treated, reqURL, p, total, opts,
                   inHeader, calls, ch, ctxDone, recvd>>

\* GetAcceptedContentType(r)
GetAcceptedContentTypeCall ==
    /\ pc = "start"
    /\ \E hdr \in HeaderStrings :
          /\ accept' = hdr
          /\ ret' = GetAcceptedContentType(hdr)
    /\ op' = "GetAcceptedContentType"
    /\ pc' = "done"
    /\ UNCHANGED <<reqContentType, err, reqBody, vTarget, w, params, val, treated, reqURL, p, total, opts,
                   inHeader, calls, ch, ctxDone, recvd>>

\* DecodeJSON(r, v)
DecodeJSONCall ==
    /\ pc = "start"
    /\ \E r \in Bodies, ahead \in 0 .. MaxBody :
          LET out == DecodeJSON(r, vTarget, ahead)
          IN  reqBody' = out.r /\ vTarget' = out.v /\ err' = out.err
    /\ op' = "DecodeJSON"
    /\ pc' = "done"
    /\ UNCHANGED <<reqContentType, accept, ret, w, params, val, treated, reqURL, p, total, opts,
                   inHeader, calls, ch, ctxDone, recvd>>

\* DecodeXML(r, v)
DecodeXMLCall ==
    /\ pc = "start"
    /\ \E r \in Bodies, ahead \in 0 .. MaxBody :
          LET out == DecodeXML(r, vTarget, ahead)
          IN  reqBody' = out.r /\ vTarget' = out.v /\ err' = out.err
    /\ op' = "DecodeXML"
    /\ pc' = "done"
    /\ UNCHANGED <<reqContentType, accept, ret, w, params, val, treated, reqURL, p, total, opts,
                   inHeader, calls, ch, ctxDone, recvd>>

\* Decode(r, v) with the package's default decoder, on a request whose
\* Content-Type is a type of the table, absent, or spelled another way
DefaultDecoderCall ==
    /\ pc = "start"
    /\ \E hdr \in {<<t>> : t \in TableTokens}
                  \cup { <<>>, <<"*/*">>, <<"Application/JSON">>, <<" ">>,
                         <<"application/json", ";", "charset=utf-8">>,
                         <<" ", "text/xml", " ">>,
                         <<"charset=utf-8", ";", "application/json">> },
          r \in Bodies, ahead \in 0 .. MaxBody, ok \in BOOLEAN :
          LET out == DefaultDecoder(hdr, r, vTarget, ahead, ok)
          IN  /\ reqContentType' = hdr
              /\ reqBody' = out.r /\ vTarget' = out.v /\ err' = out.err
    /\ op' = "DefaultDecoder"
    /\ pc' = "done"
    /\ UNCHANGED <<accept, ret, w, params, val, treated, reqURL, p, total, opts,
                   inHeader, calls, ch, ctxDone, recvd>>

NextRequest ==
    \/ GetRequestContentTypeCall
    \/ GetAcceptedContentTypeCall
    \/ DecodeJSONCall
    \/ DecodeXMLCall
    \/ DefaultDecoderCall

SpecRequest == InitRequest /\ [][NextRequest]_vars

---------------------------------------------------------------------------
(* Claims about the classifiers and the decoders. *)

\* the tokens of s before its first sep
BeforeFirst(s, sep) ==
    LET at == {i \in 1 .. Len(s) : s[i] = sep}
    IN  SubSeq(s, 1, IF at = {} THEN Len(s) ELSE Min(at) - 1)

\* the media type a header field names: what stands before the first ";",
\* white space left out
MediaType(s) == SelectSeq(BeforeFirst(s, ";"), LAMBDA t : t # " ")

\* the table of the specification, spelled as written there
TableType ==
    [t \in TableTokens |->
        CASE t = "text/plain" -> ContentTypePlainText
          [] t \in {"text/html", "application/xhtml+xml"} -> ContentTypeHTML
          [] t \in {"application/json", "text/javascript"} -> ContentTypeJSON
          [] t \in {"text/xml", "application/xml"} -> ContentTypeXML
          [] t = "application/x-www-form-urlencoded" -> ContentTypeForm
          [] t = "text/event-stream" -> ContentTypeEventStream]

\* the type of the table for the media type of s, Unknown when s names none
Classified(s) ==
    LET m == MediaType(s)
    IN  IF Len(m) = 1 /\ m[1] \in TableTokens THEN TableType[m[1]]
        ELSE ContentTypeUnknown

ParamSuffixes == { <<>>, <<"charset=utf-8">>, <<" ", "q=0.9">>, <<"q=0.9", ";", "text/xml">> }
Blanks == { <<>>, <<" ">>, <<" ", " ">> }

\* C22: GetContentType(m + ";" + p) = GetContentType(m) for every string m and
\* parameter suffix p; white space around m is ignored; the result is the
\* table's type when the media type is spelled exactly as in the table and
\* Unknown for every other string.
C22_ClassifierIdempotent ==
    (op = "GetRequestContentType" /\ pc = "done") =>
        /\ ret = Classified(reqContentType)
        /\ \A sfx \in ParamSuffixes :
              GetContentType(reqContentType \o <<";">> \o sfx) = ret
        /\ \A lead \in Blanks, trail \in Blanks :
              GetContentType(lead \o reqContentType \o trail) = ret

\* a media type of the table between blanks and before a ";" was classified
C22_Witness ==
    /\ op = "GetRequestContentType" /\ pc = "done"
    /\ reqContentType = <<" ", "text/xml", ";">>
    /\ ret = ContentTypeXML

LaterFields == { <<>>, <<"text/xml">>, <<"text/xml", ";", "q=1.0">>, <<" ", "*/*">> }

\* C23: GetAcceptedContentType classifies the first comma-separated field of
\* Accept alone, whatever fields and quality values follow, answers JSON when
\* that field is Unknown, and never answers Unknown.
C23_AcceptedFirstField ==
    (op = "GetAcceptedContentType" /\ pc = "done") =>
        LET first == BeforeFirst(accept, ",")
        IN  /\ ret = IF Classified(first) = ContentTypeUnknown THEN ContentTypeJSON
                     ELSE Classified(first)
            /\ ret # ContentTypeUnknown
            /\ \A rest \in LaterFields :
                  GetAcceptedContentType(first \o <<",">> \o rest) = ret

\* an Accept whose first field is no known type and whose second is XML was
\* answered with the default
C23_Witness ==
    /\ op = "GetAcceptedContentType" /\ pc = "done"
    /\ accept = <<"*/*", ",", "text/xml">>
    /\ ret = ContentTypeJSON

\* C24: DefaultDecoder on a Content-Type that classifies as Unknown returns
\* ErrUnableToParseContentType (errors.Is), reads nothing of the body and
\* leaves the target as it was; on a recognized Content-Type it never
\* returns that error.
C24_UnknownContentType ==
    (op = "DefaultDecoder" /\ pc = "done") =>
        IF Classified(reqContentType) = ContentTypeUnknown
        THEN /\ ErrorsIs(err, ErrUnableToParseContentType)
             /\ reqBody.pos = 0
             /\ vTarget = Zero
        ELSE ~ErrorsIs(err, ErrUnableToParseContentType)

\* DefaultDecoder refused a request with a body that holds a value
C24_Witness ==
    /\ op = "DefaultDecoder" /\ pc = "done"
    /\ reqContentType = <<"Application/JSON">>
    /\ reqBody.data = <<"value">> /\ reqBody.failAt < 0
    /\ ErrorsIs(err, ErrUnableToParseContentType)

\* C25: when DecodeJSON or DecodeXML returns, the reader is at its end,
\* whether the decode succeeded, failed or stopped before the end of the
\* input: every byte is read, or every byte up to the reader's own failure.
C25_DecodeDrains ==
    (op \in {"DecodeJSON", "DecodeXML"} /\ pc = "done") =>
        /\ reqBody.failAt < 0 => reqBody.pos = Len(reqBody.data)
        /\ reqBody.failAt >= 0 => reqBody.pos = reqBody.failAt

\* DecodeJSON decoded the first value of a body that holds more after it
C25_Witness ==
    /\ op = "DecodeJSON" /\ pc = "done"
    /\ err = <<>> /\ vTarget = Decoded
    /\ reqBody.data = <<"value", "bad", "value">> /\ reqBody.failAt < 0
    /\ reqBody.pos = 3

---------------------------------------------------------------------------
(* Further claims about the responder, the error mapper and the pagination. *)

\* channelIntoSlice has returned: a slice, or nil after cancellation
Collected == op = "Respond" /\ val.kind \in {"slice", "nil"}

\* C21: once the source is closed channelIntoSlice returns every item it
\* received, in receive order, none lost or doubled (the items sent, all of
\* them); when cancellation is selected first it answers 504 with the
\* "Server Timeout" text and returns nil, whatever it had received.
C21_ChannelIntoSlice ==
    /\ (op = "Respond" /\ pc = "collect") => recvd \o ch.buf = ch.sent
    /\ (Collected /\ val.kind = "slice") =>
           /\ ch.closed
           /\ val.items = recvd
           /\ val.items = ch.sent
    /\ (Collected /\ val.kind = "nil") =>
           /\ ctxDone
           /\ w.status = 504
           /\ Len(w.wh) >= 1 /\ w.wh[1] = 504
           /\ Len(w.body) >= 1 /\ w.body[1] = ErrorTextChunk

\* two items were collected in order before the close
C21_Witness ==
    /\ Collected
    /\ val.kind = "slice"
    /\ val.items = <<"a", "b">>

\* C26: an HTTPError, value or pointer, whose Err is or wraps a sentinel
\* matches that sentinel under errors.Is: what lies inside an HTTPError is
\* reached by the walk over the chain.
C26_HTTPErrorUnwraps ==
    (op = "Error" /\ HTTPErrorsIn(err) # {}) =>
        \A key \in DOMAIN ErrorMap :
            (\E i \in 1..Len(err) : i > Min(HTTPErrorsIn(err)) /\ key \in err[i].is)
                => ErrorsIs(err, key)

\* C27: after channelIntoSlice answered 504 on cancellation, Respond writes
\* nothing more: no second status line, no payload.
C27_NothingAfter504 ==
    (Collected /\ val.kind = "nil") =>
        /\ pc = "done"
        /\ w.wh = <<504>>
        /\ w.body = <<ErrorTextChunk>>

\* C28: a Pagination made by NewPagination from the query alone (no option)
\* that Render did not redirect has 1 <= page <= last and perPage >= 1.
C28_RenderedIsValid ==
    (op = "Render" /\ p.url = "req" /\ opts = <<>> /\ calls # <<"redirect">>) =>
        /\ 1 <= p.page
        /\ p.page <= p.last
        /\ p.perPage >= 1

C30_ErrorDeterministic ==
    (/\ op = "Error" /\ pc = "done"
     /\ NonZeroInts(params) = {} /\ HTTPErrorsIn(err) = {}
     /\ GetAcceptedContentType(accept) = ContentTypeJSON) =>
        \A key \in Matched(err) : w.status = ErrorMap[key]

====
